---- MODULE Spec2Model ----
(***************************************************************************)
(* Model of custom_components/solis/soliscloud_api.py: the SoliscloudAPI   *)
(* client (login / logout / fetch_inverter_list / fetch_inverter_data and  *)
(* the two transport helpers _post_data_json and _get_data).               *)
(*                                                                         *)
(* In Spec calls on one instance are serialized: every action is one whole *)
(* call.  SpecOverlap lets fetch_inverter_data calls overlap at their       *)
(* network await.  The server and the HTTP library are the environment:    *)
(* each request issued by a call is answered by an environment choice      *)
(* `env`.                                                                  *)
(***************************************************************************)
EXTENDS Integers, Sequences, FiniteSets, TLC

(***************************************************************************)
(* Bounds of the model.                                                    *)
(***************************************************************************)
\* longest data.records array a list response carries
MaxRecords == 2

(***************************************************************************)
(* Values.  Python's None is the string "None" for handles and ids; a      *)
(* vendor value that is absent or null is the empty tuple, a present one   *)
(* the one-element tuple (dict.get treats absent and null alike).          *)
(***************************************************************************)
None == "None"
Null == <<>>
Some(v) == <<v>>

\* session handles a caller may pass to login
Sessions == {"s1"}
\* user ids the server may answer with (JSON null included)
UserIds == {None, "u1"}
\* the records of a list response: {sn, id} objects; record.get yields
\* None for a missing field
Records ==
    { [sn |-> "A", id |-> "d1"], [sn |-> "A", id |-> "d2"],
      [sn |-> None, id |-> None] }
\* serials a caller may ask fetch_inverter_data for
Serials == {"A", "B"}

\* HTTPStatus.OK, and the statuses a response may carry: it and one other
HTTP_OK == 200
Statuses == {HTTP_OK, 500}
\* result[STATUS_CODE] when no status was stored (None, or the key is absent)
NoStatus == 0

ADD_USER == "/v1/api/addUser"
INVERTER_LIST == "/v1/api/inveterList"
INVERTER_DETAIL == "/v1/api/inveterDetail"
GET_URL == "get"

(***************************************************************************)
(* The environment's answer to one request.                                *)
(*   pre    : what awaiting session.post / session.get does: it yields a   *)
(*            response ("ok"), or raises asyncio.TimeoutError ("timeout")  *)
(*            or aiohttp.ClientError ("clienterr") before any response     *)
(*   status : resp.status                                                  *)
(*   body   : what awaiting resp.json() does: it yields the parsed body    *)
(*            ("json"), raises ClientError such as ContentTypeError        *)
(*            ("clienterr"), raises TimeoutError ("timeout"), or raises    *)
(*            json.JSONDecodeError, a ValueError ("decodeerr")             *)
(*   content: the parsed body, [shape, val]:                               *)
(*            "null"     the body is empty or the JSON value null          *)
(*            "nodata"   an object without the key 'data'                  *)
(*            "datanull" {'data': null}                                    *)
(*            "nokey"    'data' is an object without the key looked up     *)
(*            "ok"       'data' holds val under the key looked up          *)
(***************************************************************************)
Content(shape, val) == [shape |-> shape, val |-> val]

Env(pre, status, body, content) ==
    [pre |-> pre, status |-> status, body |-> body, content |-> content]

\* the answers to one request whose bodies are drawn from oks (the well
\* formed ones) and bad (the malformed ones; bad[1] stands where no body
\* was parsed)
EnvsOf(oks, bad) ==
    {Env(p, NoStatus, "none", bad[1]) : p \in {"timeout", "clienterr"}}
    \cup {Env("ok", st, b, bad[1]) :
            st \in Statuses, b \in {"clienterr", "timeout", "decodeerr"}}
    \cup {Env("ok", st, "json", bad[i]) : st \in Statuses, i \in 1..Len(bad)}
    \cup {Env("ok", HTTP_OK, "json", c) : c \in oks}

\* the environment is not asked when the helper issues no request
Idle(bad) == Env("none", NoStatus, "none", bad[1])

EnvChoices(sess, envs, idle) == IF sess = None THEN {idle} ELSE envs

\* ----- addUser bodies: data.userId
AddUserBad ==
    << Content("null", None), Content("nodata", None),
       Content("datanull", None), Content("nokey", None) >>
AddUserEnvs == EnvsOf({Content("ok", u) : u \in UserIds}, AddUserBad)

\* ----- inveterList bodies: data.records, a list of {sn, id} objects
RecordLists == UNION {[1..n -> Records] : n \in 0..MaxRecords}
ListBad ==
    << Content("null", <<>>), Content("nodata", <<>>),
       Content("datanull", <<>>), Content("nokey", <<>>) >>
ListEnvs == EnvsOf({Content("ok", rs) : rs \in RecordLists}, ListBad)

(***************************************************************************)
(* Request signing (_prepare_header) and the arguments _post_data_json     *)
(* hands to session.post.  Texts are kept as the terms that build them: a  *)
(* digest or an encoding of x is a tagged x, the canonical string is the   *)
(* tuple of its "\n"-separated lines, a concatenation the tuple of its     *)
(* parts.  A dict is the sequence of its <<key, value>> items.             *)
(***************************************************************************)
VERB == "POST"

\* the configuration the client was constructed with
ConfigDomain == "soliscloud.example"
ConfigUsername == "user"
ConfigKeyId == "keyid"
ConfigSecret == "secret"
ConfigPlantId == "plant"

\* the readings datetime.now(timezone.utc) may give
Clock == {"t1", "t2"}

\* an answer together with the clock reading of the request it answers
Stamp(answer, now) ==
    [pre |-> answer.pre, status |-> answer.status, body |-> answer.body,
     content |-> answer.content, now |-> now]

\* json.dumps(obj, separators=(itemSep, keySep)); the default separators
\* are ", " and ": "
JsonDumps(obj, itemSep, keySep) ==
    [obj |-> obj, itemSep |-> itemSep, keySep |-> keySep]
\* now.strftime("%a, %d %b %Y %H:%M:%S GMT")
Strftime(now) == <<"%a, %d %b %Y %H:%M:%S GMT", now>>
\* hashlib.md5(text.encode('utf-8')).digest()
Md5(text) == <<"md5", text>>
\* base64.b64encode(bytes).decode('utf-8')
B64(bytes) == <<"b64", bytes>>
\* hmac.new(key, msg=text.encode('utf-8'), digestmod=hashlib.sha1).digest()
HmacSha1(secret, text) == <<"hmac-sha1", secret, text>>

PrepareHeader(body, canonicalized_resource, now) ==
    LET date == Strftime(now)
        content_md5 == B64(Md5(JsonDumps(body, ",", ":")))
        content_type == "application/json"
        encrypt_str ==
            <<VERB, content_md5, content_type, date, canonicalized_resource>>
        sign == B64(HmacSha1(ConfigSecret, encrypt_str))
        authorization == <<"API ", ConfigKeyId, ":", sign>>
    IN  [ContentMD5 |-> content_md5, ContentType |-> content_type,
         Date |-> date, Authorization |-> authorization]

\* f"https://{domain}{canonicalized_resource}"
Url(canonicalized_resource) == <<"https://", ConfigDomain, canonicalized_resource>>

\* PostArgs with json.dumps(params) left at its default separators
PostArgs_DefaultSeparators(canonicalized_resource, params, now) ==
    [url |-> Url(canonicalized_resource),
     data |-> JsonDumps(params, ", ", ": "),
     headers |-> PrepareHeader(params, canonicalized_resource, now)]

\* session.post(url, data=json.dumps(params, separators=(",", ":")),
\*              headers=header)
PostArgs(canonicalized_resource, params, now) ==
    [url |-> Url(canonicalized_resource),
     data |-> JsonDumps(params, ",", ":"),
     headers |-> PrepareHeader(params, canonicalized_resource, now)]

\* session.get(url, params=params)
GetArgs(url, params) == [params |-> params, url |-> url]

\* the params dicts of the three signed requests
AddUserParams == << <<"userName", ConfigUsername>>, <<"userType", 0>> >>
ListParams(plant_id) == << <<"stationId", plant_id>> >>
DetailParams(device_id, device_serial) ==
    << <<"id", device_id>>, <<"sn", device_serial>> >>

(***************************************************************************)
(* The transport helpers.  Both return                                     *)
(*   issued   : a request went out                                         *)
(*   acquired : a response object was bound to resp                        *)
(*   released : number of resp.release() calls                             *)
(*   exc      : "none", or the exception that leaves the helper            *)
(*   res      : the result dict returned when exc = "none"                 *)
(***************************************************************************)
Result(success, status, message, hasContent, content) ==
    [Content |-> content, Success |-> success, StatusCode |-> status,
     Message |-> message, HasContent |-> hasContent]

Outcome(issued, acquired, released, exc, res) ==
    [issued |-> issued, acquired |-> acquired, released |-> released,
     exc |-> exc, res |-> res]

\* what the try block leaves behind: whether resp was bound, the exception
\* that is still in flight after the except clause, and the result dict
Tried(acquired, exc, res) == [acquired |-> acquired, exc |-> exc, res |-> res]

\* Finally with the release forgotten
Finally_Skipped(acquired) == 0

\* the finally clause: `if resp is not None: await resp.release()`
Finally(acquired) == IF acquired THEN 1 ELSE 0

\* PostTry with `except ClientError` alone: a timeout while the body is read
\* leaves the helper
PostTry_TimeoutEscapes(init, env) ==
    IF env.pre # "ok"
      THEN Tried(FALSE, "none", [init EXCEPT !.Message = "error"])
    ELSE IF env.body = "clienterr"
      THEN Tried(TRUE, "none",
                 [init EXCEPT !.StatusCode = env.status, !.Message = "error"])
    ELSE IF env.body = "timeout"
      THEN Tried(TRUE, "TimeoutError", [init EXCEPT !.StatusCode = env.status])
    ELSE IF env.body = "decodeerr"
      THEN Tried(TRUE, "JSONDecodeError",
                 [init EXCEPT !.StatusCode = env.status])
    ELSE IF env.status = HTTP_OK
      THEN Tried(TRUE, "none",
                 Result(TRUE, env.status, "OK", TRUE, env.content))
    ELSE Tried(TRUE, "none",
               Result(FALSE, env.status, "status", TRUE, env.content))

\* try / except (asyncio.TimeoutError, ClientError) of _post_data_json
PostTry(init, env) ==
    IF env.pre # "ok"
      \* session.post raised: caught, resp is still None
      THEN Tried(FALSE, "none", [init EXCEPT !.Message = "error"])
    ELSE IF env.body \in {"clienterr", "timeout"}
      \* resp.json() raised one of the caught exceptions, after
      \* result[STATUS_CODE] was stored
      THEN Tried(TRUE, "none",
                 [init EXCEPT !.StatusCode = env.status, !.Message = "error"])
    ELSE IF env.body = "decodeerr"
      \* resp.json() raised ValueError: no except clause matches
      THEN Tried(TRUE, "JSONDecodeError",
                 [init EXCEPT !.StatusCode = env.status])
    ELSE IF env.status = HTTP_OK
      THEN Tried(TRUE, "none",
                 Result(TRUE, env.status, "OK", TRUE, env.content))
    ELSE Tried(TRUE, "none",
               Result(FALSE, env.status, "status", TRUE, env.content))

\* PostDataJson without the `if self._session is None: return result` test
PostDataJson_NoSessionCheck(sess, env) ==
    LET init == Result(FALSE, NoStatus, "None", FALSE, env.content)
        t == PostTry(init, env)
    IN  Outcome(TRUE, t.acquired, Finally(t.acquired), t.exc, t.res)

PostDataJson(sess, env) ==
    LET init == Result(FALSE, NoStatus, "None", FALSE, env.content)
    IN  IF sess = None
          THEN Outcome(FALSE, FALSE, 0, "none", init)
          ELSE LET t == PostTry(init, env)
               IN  Outcome(TRUE, t.acquired, Finally(t.acquired), t.exc, t.res)

\* try / except (asyncio.TimeoutError, ClientError) of _get_data
GetTry(init, env) ==
    IF env.pre # "ok"
      THEN Tried(FALSE, "none", [init EXCEPT !.Message = "error"])
    ELSE IF env.body \in {"clienterr", "timeout"}
      THEN Tried(TRUE, "none",
                 [init EXCEPT !.StatusCode = env.status, !.Message = "error"])
    ELSE IF env.body = "decodeerr"
      THEN Tried(TRUE, "JSONDecodeError",
                 [init EXCEPT !.StatusCode = env.status])
    ELSE IF env.status = HTTP_OK
      THEN Tried(TRUE, "none",
                 Result(TRUE, env.status, "OK", TRUE, env.content))
    ELSE Tried(TRUE, "none",
               Result(FALSE, env.status, "status", TRUE, env.content))

GetData(sess, env) ==
    LET init == Result(FALSE, NoStatus, "None", FALSE, env.content)
    IN  IF sess = None
          THEN Outcome(FALSE, FALSE, 0, "none", init)
          ELSE LET t == GetTry(init, env)
               IN  Outcome(TRUE, t.acquired, Finally(t.acquired), t.exc, t.res)

\* one entry of the request log of a call; sent holds the arguments of
\* session.post / session.get (meaningful when issued)
Req(resource, sent, env, out) ==
    [issued |-> out.issued, acquired |-> out.acquired,
     released |-> out.released, exc |-> out.exc, res |-> out.res,
     env |-> env, resource |-> resource, sent |-> sent]

(***************************************************************************)
(* The inverter map: None, or a dict serial -> device id.                  *)
(***************************************************************************)
EmptyDict == <<>>
NoList == [isNone |-> TRUE, map |-> EmptyDict]
ListOf(m) == [isNone |-> FALSE, map |-> m]

\* BuildMap with `device_ids.setdefault(sn, id)`: the first record of a
\* serial wins
RECURSIVE BuildMap_FirstWins(_, _)
BuildMap_FirstWins(m, records) ==
    IF records = <<>> THEN m
    ELSE LET r == Head(records)
         IN  BuildMap_FirstWins([k \in DOMAIN m \cup {r.sn} |->
                                    IF k \in DOMAIN m THEN m[k] ELSE r.id],
                                Tail(records))

\* device_ids after the loop `for record in records: device_ids[sn] = id`:
\* a later record with the same serial overwrites an earlier one
RECURSIVE BuildMap(_, _)
BuildMap(m, records) ==
    IF records = <<>> THEN m
    ELSE LET r == Head(records)
         IN  BuildMap([k \in DOMAIN m \cup {r.sn} |->
                          IF k = r.sn THEN r.id ELSE m[k]],
                      Tail(records))

\* the exception raised by result_json['data'][key] (or by iterating it),
\* "none" when the lookup yields the value
LookupExc(content) ==
    CASE content.shape \in {"null", "datanull"} -> "TypeError"
      [] content.shape \in {"nodata", "nokey"} -> "KeyError"
      [] OTHER -> "none"

(***************************************************************************)
(* fetch_inverter_list, as a function of the session handle, the user id   *)
(* at the call and the answer to its request.  ret is the returned map     *)
(* (meaningful when exc = "none"), uid the user id it leaves.              *)
(***************************************************************************)
ListOutcome(ret, exc, uid, req) ==
    [exc |-> exc, ret |-> ret, uid |-> uid, req |-> req]

\* FetchInverterListOp without the else branch that clears the user id
FetchInverterListOp_KeepsUser(sess, uid, env) ==
    LET out == PostDataJson(sess, env)
        req == Req(INVERTER_LIST,
                   PostArgs(INVERTER_LIST, ListParams(ConfigPlantId), env.now),
                   env, out)
    IN  IF out.exc # "none"
          THEN ListOutcome(NoList, out.exc, uid, req)
        ELSE IF out.res.Success
          THEN IF LookupExc(out.res.Content) # "none"
                 THEN ListOutcome(NoList, LookupExc(out.res.Content), uid, req)
                 ELSE ListOutcome(ListOf(BuildMap(EmptyDict, out.res.Content.val)),
                                  "none", uid, req)
        ELSE ListOutcome(NoList, "none", uid, req)

FetchInverterListOp(sess, uid, env) ==
    LET out == PostDataJson(sess, env)
        req == Req(INVERTER_LIST,
                   PostArgs(INVERTER_LIST, ListParams(ConfigPlantId), env.now),
                   env, out)
    IN  IF out.exc # "none"
          THEN ListOutcome(NoList, out.exc, uid, req)
        ELSE IF out.res.Success
          THEN IF LookupExc(out.res.Content) # "none"
                 THEN ListOutcome(NoList, LookupExc(out.res.Content), uid, req)
                 ELSE ListOutcome(ListOf(BuildMap(EmptyDict, out.res.Content.val)),
                                  "none", uid, req)
        ELSE ListOutcome(NoList, "none", None, req)

(***************************************************************************)
(* login, from the point after the addUser request: the user id and the    *)
(* inverter map it leaves, its return value and the exception it raises.   *)
(* uid is the user id at the call (login has already set the session and   *)
(* cleared the inverter map).                                              *)
(***************************************************************************)
LoginOutcome(uid, list, ret, exc, reqs) ==
    [exc |-> exc, ret |-> ret, uid |-> uid, list |-> list, reqs |-> reqs]

IsOnline(uid) == uid # None
BoolRet(b) == IF b THEN "True" ELSE "False"

LoginOp(sess, uid, env1, env2) ==
    LET out == PostDataJson(sess, env1)
        r1 == Req(ADD_USER, PostArgs(ADD_USER, AddUserParams, env1.now),
                  env1, out)
    IN  IF out.exc # "none"
          THEN LoginOutcome(uid, NoList, "raised", out.exc, <<r1>>)
        ELSE IF out.res.Success
          THEN LET exc1 == LookupExc(out.res.Content)
               IN  IF exc1 = "KeyError"
                     THEN LoginOutcome(None, NoList, BoolRet(IsOnline(None)),
                                       "none", <<r1>>)
                   ELSE IF exc1 # "none"
                     THEN LoginOutcome(uid, NoList, "raised", exc1, <<r1>>)
                   ELSE LET fl == FetchInverterListOp(sess, out.res.Content.val, env2)
                        IN  IF fl.exc = "KeyError"
                              THEN LoginOutcome(None, NoList,
                                                BoolRet(IsOnline(None)), "none",
                                                <<r1, fl.req>>)
                            ELSE IF fl.exc # "none"
                              THEN LoginOutcome(fl.uid, NoList, "raised", fl.exc,
                                                <<r1, fl.req>>)
                            ELSE LoginOutcome(fl.uid, fl.ret,
                                              BoolRet(IsOnline(fl.uid)), "none",
                                              <<r1, fl.req>>)
        ELSE LoginOutcome(None, NoList, BoolRet(IsOnline(None)), "none", <<r1>>)

\* whether login reaches its call of fetch_inverter_list
LoginFetchesList(sess, env1) ==
    LET out == PostDataJson(sess, env1)
    IN  out.exc = "none" /\ out.res.Success /\ LookupExc(out.res.Content) = "none"

(***************************************************************************)
(* Normalisation of the inverter detail payload.                           *)
(*                                                                         *)
(* Numbers are tagged with their Python type.  A float is held in          *)
(* thousandths (Float(1500) is 1.5); a JSON number of a float field is     *)
(* given in thousandths as well.                                           *)
(***************************************************************************)
IntVal(n) == [type |-> "int", num |-> n]
Float(milli) == [type |-> "float", num |-> milli]

\* canonical field names (ginlong_const) of the entries of
\* INVERTER_DATA[INVERTER_DETAIL] that the post-processing reads; every other
\* entry of the table is collected the same way and then left alone
INVERTER_TIMESTAMP_UPDATE == "timestamp"
PHASE1_VOLTAGE == "phase1Voltage"
PHASE2_VOLTAGE == "phase2Voltage"
PHASE3_VOLTAGE == "phase3Voltage"
PHASE1_CURRENT == "phase1Current"
PHASE2_CURRENT == "phase2Current"
PHASE3_CURRENT == "phase3Current"

\* canonical name |-> [vendor key, type, decimal precision]
Attr(key, type, precision) == [type |-> type, key |-> key, precision |-> precision]
INVERTER_DATA ==
    (INVERTER_TIMESTAMP_UPDATE :> Attr("dataTimestamp", "int", 0))
    @@ (PHASE1_VOLTAGE :> Attr("uAc1", "float", 2))
    @@ (PHASE2_VOLTAGE :> Attr("uAc2", "float", 2))
    @@ (PHASE3_VOLTAGE :> Attr("uAc3", "float", 2))
    @@ (PHASE1_CURRENT :> Attr("iAc1", "float", 2))
    @@ (PHASE2_CURRENT :> Attr("iAc2", "float", 2))
    @@ (PHASE3_CURRENT :> Attr("iAc3", "float", 2))

VendorKeys == {INVERTER_DATA[f].key : f \in DOMAIN INVERTER_DATA}

\* 10^(3 - precision): the step, in thousandths, of a float rounded to
\* `precision` decimals
RoundStep(precision) == CASE precision = 1 -> 100 [] precision = 2 -> 10 [] OTHER -> 1

\* round(x, precision) for x >= 0 in thousandths, ties to even
Round(milli, precision) ==
    LET step == RoundStep(precision)
        q == milli \div step
        r == milli % step
    IN  IF 2 * r > step \/ (2 * r = step /\ q % 2 = 1)
          THEN (q + 1) * step
          ELSE q * step

\* _get_value: None (Null) when the key is absent or null, else the value
\* coerced to the declared type and, for a float, rounded
GetValue(jsondata, key, type, precision) ==
    LET data_raw == jsondata[key]
    IN  IF data_raw = Null THEN Null
        ELSE IF type = "float" THEN Some(Float(Round(data_raw[1], precision)))
        ELSE Some(IntVal(data_raw[1]))

\* CollectInverterData with `self._data.setdefault(dictkey, value)`: a value
\* already in self._data is kept
CollectInverterData_KeepsOld(data, jsondata) ==
    LET val(f) == GetValue(jsondata, INVERTER_DATA[f].key, INVERTER_DATA[f].type,
                           INVERTER_DATA[f].precision)
        got == {f \in DOMAIN INVERTER_DATA : val(f) # Null}
    IN  [f \in DOMAIN data \cup got |->
            IF f \in DOMAIN data THEN data[f] ELSE val(f)[1]]

\* _collect_inverter_data: every attribute whose value is not None is stored
\* in self._data under its canonical name
CollectInverterData(data, jsondata) ==
    LET val(f) == GetValue(jsondata, INVERTER_DATA[f].key, INVERTER_DATA[f].type,
                           INVERTER_DATA[f].precision)
        got == {f \in DOMAIN INVERTER_DATA : val(f) # Null}
    IN  [f \in DOMAIN data \cup got |-> IF f \in got THEN val(f)[1] ELSE data[f]]

\* PurgeIfUnused that looks at the first element only
PurgeIfUnused_FirstOnly(data, value, first, second) ==
    IF first \notin DOMAIN data THEN data
    ELSE IF data[first] # value THEN data
    ELSE [f \in DOMAIN data \ {first, second} |-> data[f]]

\* _purge_if_unused(value, first, second): both elements are popped when
\* both are present and equal to value; a missing or different element
\* returns at once
PurgeIfUnused(data, value, first, second) ==
    IF first \notin DOMAIN data THEN data
    ELSE IF data[first] # value THEN data
    ELSE IF second \notin DOMAIN data THEN data
    ELSE IF data[second] # value THEN data
    ELSE [f \in DOMAIN data \ {first, second} |-> data[f]]

\* float(x) / 1000
ToFloat(x) == IF x.type = "float" THEN x ELSE Float(x.num * 1000)
\* DivideBy1000 applied a second time
DivideBy1000_Twice(x) == Float((x.num \div 1000) \div 1000)
DivideBy1000(x) == Float(x.num \div 1000)

\* _post_process: [exc, data]; self._data[INVERTER_TIMESTAMP_UPDATE] raises
\* KeyError when the timestamp was not collected
PostProcess(data) ==
    IF data = EmptyDict
      THEN [data |-> data, exc |-> "none"]
    ELSE IF INVERTER_TIMESTAMP_UPDATE \notin DOMAIN data
      THEN [data |-> data, exc |-> "KeyError"]
    ELSE LET d0 == [data EXCEPT ![INVERTER_TIMESTAMP_UPDATE] =
                        DivideBy1000(ToFloat(data[INVERTER_TIMESTAMP_UPDATE]))]
             d1 == PurgeIfUnused(d0, Float(0), PHASE1_CURRENT, PHASE1_VOLTAGE)
             d2 == PurgeIfUnused(d1, Float(0), PHASE2_CURRENT, PHASE2_VOLTAGE)
             d3 == PurgeIfUnused(d2, Float(0), PHASE3_CURRENT, PHASE3_VOLTAGE)
         IN  [data |-> d3, exc |-> "none"]

\* ----- inveterDetail bodies: data, an object of vendor keys
\* the (current, voltage) readings of one AC phase, in thousandths: not
\* wired (both zero), not reported, and live (230.004)
Unwired == <<Some(0), Some(0)>>
Unreported == <<Null, Null>>
Live == <<Some(230004), Some(230004)>>
DetailData(ts, p) ==
    ("dataTimestamp" :> ts)
    @@ ("iAc1" :> p[1][1]) @@ ("uAc1" :> p[1][2])
    @@ ("iAc2" :> p[2][1]) @@ ("uAc2" :> p[2][2])
    @@ ("iAc3" :> p[3][1]) @@ ("uAc3" :> p[3][2])
\* the data objects of a detail response: with and without the timestamp
\* (dataTimestamp is in milliseconds),
\* of an inverter that reports nothing else, a single-phase and a
\* three-phase one
DetailDatas ==
    {DetailData(ts, p) :
        ts \in {Null, Some(1500)},
        p \in { <<Unreported, Unreported, Unreported>>,
                <<Live, Unwired, Unwired>>,
                <<Live, Live, Live>> }}
AllNull == [k \in VendorKeys |-> Null]
DetailBad ==
    << Content("null", AllNull), Content("nodata", AllNull),
       Content("datanull", AllNull) >>
DetailEnvs == EnvsOf({Content("ok", d) : d \in DetailDatas}, DetailBad)

(***************************************************************************)
(* fetch_inverter_data (with _get_inverter_details): the record it leaves  *)
(* in self._data, its return value ("None" or "record", the record being   *)
(* self._data) and the exception it raises.                                *)
(***************************************************************************)
DataOutcome(d, ret, exc, reqs) ==
    [data |-> d, exc |-> exc, ret |-> ret, reqs |-> reqs]

\* KnowsSerial without the is_online test
KnowsSerial_IgnoresLogin(uid, list, serial) ==
    ~list.isNone /\ serial \in DOMAIN list.map

\* whether fetch_inverter_data reaches _get_inverter_details
KnowsSerial(uid, list, serial) ==
    IsOnline(uid) /\ ~list.isNone /\ serial \in DOMAIN list.map

\* FreshData with the reset forgotten
FreshData_Kept(d) == d

\* `self._data = {}` at the start of fetch_inverter_data
FreshData(d) == EmptyDict

\* fetch_inverter_data from its call of _get_inverter_details on; d is
\* self._data at the time the answer is handled
FetchInverterDataResume(d, sess, device_id, serial, env) ==
    LET out == PostDataJson(sess, env)
        req == Req(INVERTER_DETAIL,
                   PostArgs(INVERTER_DETAIL, DetailParams(device_id, serial),
                            env.now),
                   env, out)
    IN  IF out.exc # "none"
          THEN DataOutcome(d, "raised", out.exc, <<req>>)
        ELSE IF ~out.res.Success \/ out.res.Content.shape = "null"
          \* payload is None
          THEN DataOutcome(d, "None", "none", <<req>>)
        ELSE IF out.res.Content.shape = "nodata"
          \* payload['data']
          THEN DataOutcome(d, "raised", "KeyError", <<req>>)
        ELSE IF out.res.Content.shape = "datanull"
          \* None.get(key)
          THEN DataOutcome(d, "raised", "AttributeError", <<req>>)
        ELSE
          LET collected == CollectInverterData(d, out.res.Content.val)
              pp == PostProcess(collected)
          IN  IF pp.exc # "none"
                THEN DataOutcome(pp.data, "raised", pp.exc, <<req>>)
                ELSE DataOutcome(pp.data, "record", "none", <<req>>)

\* a whole call of fetch_inverter_data on an instance whose self._data is d
FetchInverterDataOp(d, sess, uid, list, serial, env) ==
    IF ~KnowsSerial(uid, list, serial)
      THEN DataOutcome(FreshData(d), "None", "none", <<>>)
      ELSE FetchInverterDataResume(FreshData(d), sess, list.map[serial],
                                   serial, env)

(***************************************************************************)
(* logout: the state it leaves and the handles it closed.                  *)
(***************************************************************************)
\* LogoutOp without the call of session.close()
LogoutOp_NoClose(sess) ==
    [uid |-> None, list |-> NoList, session |-> None, closes |-> <<>>]

LogoutOp(sess) ==
    [uid |-> None, list |-> NoList, session |-> None,
     closes |-> IF sess # None THEN <<sess>> ELSE <<>>]

\* ----- _get_data bodies (no caller reads them)
GetBad == << Content("null", None) >>
GetEnvs == EnvsOf({Content("ok", None)}, GetBad)

(***************************************************************************)
(* The client.                                                             *)
(*   session, user_id, inverter_list, data : the instance fields           *)
(*   last : the last call, for stating what a call did:                    *)
(*          op, arg       the method and its argument                      *)
(*          preSession    the session handle when it was called            *)
(*          ret, retList  the return value (retList: the map returned by   *)
(*                        fetch_inverter_list)                             *)
(*          exc           the exception that left the call, or "none"      *)
(*          closes        the session handles it closed                    *)
(*          reqs          its requests, in order                           *)
(*          overlapped    another call was suspended while it ran          *)
(*   clock   : the wall clock datetime.now reads                           *)
(*   flights : the fetch_inverter_data calls suspended at the await of     *)
(*             their detail request: [serial, device_id, overlapped]       *)
(***************************************************************************)
VARIABLES session, user_id, inverter_list, data, last, clock, flights

vars == <<session, user_id, inverter_list, data, last, clock, flights>>

Call(op, arg, ret, retList, exc, closes, reqs) ==
    [exc |-> exc, ret |-> ret, reqs |-> reqs, closes |-> closes,
     op |-> op, arg |-> arg, retList |-> retList, preSession |-> session,
     overlapped |-> FALSE]

\* no call has been made yet
NoCall ==
    [exc |-> "none", ret |-> "None", reqs |-> <<>>, closes |-> <<>>,
     op |-> "init", arg |-> None, retList |-> NoList, preSession |-> None,
     overlapped |-> FALSE]

Init ==
    /\ session = None
    /\ user_id = None
    /\ inverter_list = NoList
    /\ data = EmptyDict
    /\ last = NoCall
    /\ clock = "t1"
    /\ flights = {}

Login(s) ==
    \E env1 \in AddUserEnvs :
      \E env2 \in IF LoginFetchesList(s, env1) THEN ListEnvs ELSE {Idle(ListBad)} :
        \E o \in {LoginOp(s, user_id, Stamp(env1, clock), Stamp(env2, clock))} :
            /\ session' = s
            /\ user_id' = o.uid
            /\ inverter_list' = o.list
            /\ data' = data
            /\ last' = Call("login", s, o.ret, NoList, o.exc, <<>>, o.reqs)
            /\ UNCHANGED <<clock, flights>>

Logout ==
    \E o \in {LogoutOp(session)} :
        /\ session' = o.session
        /\ user_id' = o.uid
        /\ inverter_list' = o.list
        /\ data' = data
        /\ last' = Call("logout", None, "None", NoList, "none", o.closes, <<>>)
        /\ UNCHANGED <<clock, flights>>

FetchInverterList ==
    \E env \in EnvChoices(session, ListEnvs, Idle(ListBad)) :
      \E o \in {FetchInverterListOp(session, user_id, Stamp(env, clock))} :
          /\ user_id' = o.uid
          /\ UNCHANGED <<session, inverter_list, data, clock, flights>>
          /\ last' = Call("fetch_inverter_list", None,
                          IF o.exc # "none" THEN "raised"
                          ELSE IF o.ret.isNone THEN "None" ELSE "map",
                          o.ret, o.exc, <<>>, <<o.req>>)

\* FetchInverterData that logs the client out when the detail request fails
FetchInverterData_LogsOut(serial) ==
    \E env \in IF KnowsSerial(user_id, inverter_list, serial)
               THEN EnvChoices(session, DetailEnvs, Idle(DetailBad))
               ELSE {Idle(DetailBad)} :
      \E o \in {FetchInverterDataOp(data, session, user_id, inverter_list,
                                    serial, Stamp(env, clock))} :
          /\ data' = o.data
          /\ user_id' = IF o.reqs # <<>> /\ o.ret = "None" THEN None ELSE user_id
          /\ UNCHANGED <<session, inverter_list, clock, flights>>
          /\ last' = Call("fetch_inverter_data", serial, o.ret, NoList, o.exc,
                          <<>>, o.reqs)

FetchInverterData(serial) ==
    \E env \in IF KnowsSerial(user_id, inverter_list, serial)
               THEN EnvChoices(session, DetailEnvs, Idle(DetailBad))
               ELSE {Idle(DetailBad)} :
      \E o \in {FetchInverterDataOp(data, session, user_id, inverter_list,
                                    serial, Stamp(env, clock))} :
          /\ data' = o.data
          /\ UNCHANGED <<session, user_id, inverter_list, clock, flights>>
          /\ last' = Call("fetch_inverter_data", serial, o.ret, NoList, o.exc,
                          <<>>, o.reqs)

GetDataCall ==
    \E env \in EnvChoices(session, GetEnvs, Idle(GetBad)) :
      \E o \in {GetData(session, env)} :
          /\ UNCHANGED <<session, user_id, inverter_list, data, clock, flights>>
          /\ last' = Call("_get_data", None,
                          IF o.exc # "none" THEN "raised" ELSE "result",
                          NoList, o.exc, <<>>,
                          <<Req(GET_URL, GetArgs(GET_URL, <<>>),
                                Stamp(env, clock), o)>>)

Next ==
    \/ \E s \in Sessions : Login(s)
    \/ Logout
    \/ FetchInverterList
    \/ \E serial \in Serials : FetchInverterData(serial)
    \/ GetDataCall

Spec == Init /\ [][Next]_vars

(***************************************************************************)
(* The same client, constructed at any reading of the clock.               *)
(***************************************************************************)
InitClock ==
    /\ session = None
    /\ user_id = None
    /\ inverter_list = NoList
    /\ data = EmptyDict
    /\ last = NoCall
    /\ clock \in Clock
    /\ flights = {}

SpecClock == InitClock /\ [][Next]_vars

(***************************************************************************)
(* A client that has logged in (user id set, inverter map `list`), before  *)
(* its first fetch_inverter_data call.                                     *)
(***************************************************************************)
Online(lists) ==
    /\ session \in Sessions
    /\ user_id = "u1"
    /\ inverter_list \in lists
    /\ data = EmptyDict
    /\ last = NoCall
    /\ clock = "t1"
    /\ flights = {}

(***************************************************************************)
(* Overlapping fetch_inverter_data calls on a logged-in client.  A call    *)
(* runs up to the await of its detail request (FetchBegin), is suspended   *)
(* there, and runs to its return when the answer arrives (FetchResume);    *)
(* nothing else in fetch_inverter_data awaits.  Calls for different        *)
(* serials may be suspended at the same time.                              *)
(***************************************************************************)
Flight(serial, device_id, overlapped) ==
    [device_id |-> device_id, serial |-> serial, overlapped |-> overlapped]

\* fetch_inverter_data up to the await in _post_data_json; a call that
\* issues no request returns at once
FetchBegin(serial) ==
    /\ \A f \in flights : f.serial # serial
    /\ IF KnowsSerial(user_id, inverter_list, serial) /\ session # None
         THEN /\ data' = FreshData(data)
              /\ flights' = {[f EXCEPT !.overlapped = TRUE] : f \in flights}
                             \cup {Flight(serial, inverter_list.map[serial],
                                           flights # {})}
              /\ last' = Call("fetch_inverter_data.await", serial, "None",
                              NoList, "none", <<>>, <<>>)
         ELSE \E o \in {FetchInverterDataOp(data, session, user_id,
                                            inverter_list, serial,
                                            Stamp(Idle(DetailBad), clock))} :
                /\ data' = o.data
                /\ flights' = flights
                /\ last' = Call("fetch_inverter_data", serial, o.ret, NoList,
                                o.exc, <<>>, o.reqs)
    /\ UNCHANGED <<session, user_id, inverter_list, clock>>

\* the answer to the detail request of a suspended call arrives, drawn
\* from envs, and the call runs to its return
FetchResumeFrom(serial, envs) ==
    \E f \in flights :
      /\ f.serial = serial
      /\ \E env \in envs :
           \E o \in {FetchInverterDataResume(data, session, f.device_id, serial,
                                             Stamp(env, clock))} :
               /\ data' = o.data
               /\ flights' = flights \ {f}
               /\ last' = [Call("fetch_inverter_data", serial, o.ret, NoList,
                                o.exc, <<>>, o.reqs)
                             EXCEPT !.overlapped = f.overlapped]
      /\ UNCHANGED <<session, user_id, inverter_list, clock>>

FetchResume(serial) == FetchResumeFrom(serial, DetailEnvs)

InitOverlap ==
    Online({ListOf(("A" :> "d1") @@ ("B" :> "d2")), ListOf("A" :> "d1")})

NextOverlap ==
    \/ \E serial \in Serials : FetchBegin(serial)
    \/ \E serial \in Serials : FetchResume(serial)

SpecOverlap == InitOverlap /\ [][NextOverlap]_vars

(***************************************************************************)
(* One inverter polled again and again (the calls for one serial do not    *)
(* overlap), its detail responses carrying dataTimestamp and every         *)
(* combination of the six phase readings being absent, zero, 0.004 (which  *)
(* rounds to 0.0) or live.                                                 *)
(***************************************************************************)
PhaseReadings == {Null, Some(0), Some(4), Some(230004)}
PhasePairs == PhaseReadings \X PhaseReadings
PhaseDatas ==
    {DetailData(Some(1500), p) : p \in PhasePairs \X PhasePairs \X PhasePairs}
PhaseEnvs == {Env("ok", HTTP_OK, "json", Content("ok", d)) : d \in PhaseDatas}

InitPurge == Online({ListOf("A" :> "d1")})

NextPurge ==
    \/ \E serial \in {"A"} : FetchBegin(serial)
    \/ \E serial \in {"A"} : FetchResumeFrom(serial, PhaseEnvs)

SpecPurge == InitPurge /\ [][NextPurge]_vars

(***************************************************************************)
(* Properties.                                                             *)
(***************************************************************************)
\* the requests of the last call, by position, and the request at one
LastReqs == DOMAIN last.reqs
ReqAt(i) == last.reqs[i]
\* the request got a response object
GotResponse(r) == r.issued /\ r.env.pre = "ok"
\* the helper returned a result that is a failure
FailureResult(r) == r.exc = "none" /\ ~r.res.Success
\* the request timed out or met a transport error, before or after the
\* response object was obtained
TransportError(r) ==
    /\ r.issued
    /\ \/ r.env.pre \in {"timeout", "clienterr"}
       \/ r.env.pre = "ok" /\ r.env.body \in {"timeout", "clienterr"}
\* the response was a 200 whose body parsed
Parsed200(r) == GotResponse(r) /\ r.env.status = HTTP_OK /\ r.env.body = "json"

\* C1: whenever the inverter map is not None, the user id is not None.
C1_MapOnlyWhileLoggedIn ==
    ~inverter_list.isNone => user_id # None

\* C2: after a login call that returns False, the user id is None and the
\* inverter map is None.
C2_FailedLoginResetsSession ==
    (last.op = "login" /\ last.ret = "False")
        => (user_id = None /\ inverter_list.isNone)

\* C3: when the inveterList request ends in a failure result (non-200
\* status, timeout or transport error, no session handle),
\* fetch_inverter_list returns None and leaves the user id None; a login
\* whose addUser step yielded a userId then returns False.
C3_FailedListFetchClearsUser ==
    /\ (last.op = "fetch_inverter_list" /\ FailureResult(last.reqs[1]))
          => (last.ret = "None" /\ last.retList.isNone /\ user_id = None)
    /\ (last.op = "login" /\ Len(last.reqs) = 2 /\ FailureResult(last.reqs[2]))
          => (last.ret = "False" /\ last.exc = "none" /\ user_id = None
              /\ inverter_list.isNone)

\* C3 witness: a login whose addUser answer carried a user id and whose
\* inveterList request got a non-200 answer.
C3_Witness ==
    /\ last.op = "login" /\ Len(last.reqs) = 2
    /\ last.reqs[1].res.Success /\ last.reqs[1].res.Content.val = "u1"
    /\ GotResponse(last.reqs[2]) /\ last.reqs[2].env.status # HTTP_OK
    /\ FailureResult(last.reqs[2])
    /\ last.ret = "False" /\ user_id = None

\* C4: after logout the session handle, the user id and the inverter map are
\* None, and the session handle was closed if and only if one was present
\* when logout was called.
C4_LogoutUnconditional ==
    last.op = "logout"
        => /\ session = None
           /\ user_id = None
           /\ inverter_list.isNone
           /\ last.closes = IF last.preSession # None
                              THEN <<last.preSession>> ELSE <<>>

\* C4 witness: a logout that found a session handle and closed it.
C4_Witness ==
    /\ last.op = "logout" /\ last.preSession = "s1" /\ last.closes = <<"s1">>
    /\ session = None /\ user_id = None /\ inverter_list.isNone

\* C5: fetch_inverter_data called while not logged in, or with a serial that
\* is not a key of the inverter map, returns None and issues no request.
\* (fetch_inverter_data leaves user_id and inverter_list as they were at the
\* call.)
C5_UnknownSerialNoRequest ==
    (/\ last.op = "fetch_inverter_data"
     /\ \/ user_id = None
        \/ inverter_list.isNone
        \/ last.arg \notin DOMAIN inverter_list.map)
        => /\ last.ret = "None"
           /\ last.exc = "none"
           /\ \A i \in LastReqs : ~ReqAt(i).issued

\* C5 witness: a call for a serial of the map made after the user id was
\* cleared, with a session handle at hand: nothing went out.
C5_Witness ==
    /\ last.op = "fetch_inverter_data"
    /\ session # None /\ user_id = None
    /\ ~inverter_list.isNone /\ last.arg \in DOMAIN inverter_list.map
    /\ last.ret = "None" /\ last.reqs = <<>>

\* C6: a request that receives a response with a status other than 200,
\* whatever its body, yields a result with Success = False and StatusCode
\* equal to the response status, and no exception leaves the helper.
C6_Non200IsFailureResult ==
    \A i \in LastReqs :
        (GotResponse(ReqAt(i)) /\ ReqAt(i).env.status # HTTP_OK)
            => (ReqAt(i).exc = "none" /\ ~ReqAt(i).res.Success
                /\ ReqAt(i).res.StatusCode = ReqAt(i).env.status)

\* C7: a response that was acquired is released exactly once before the
\* helper is left, on every exit path; when none was acquired nothing is
\* released.
C7_ResponseReleasedOnce ==
    \A i \in LastReqs :
        /\ ReqAt(i).acquired = GotResponse(ReqAt(i))
        /\ ReqAt(i).released = IF GotResponse(ReqAt(i)) THEN 1 ELSE 0

\* C7 witness: a response released on the path where the body parse raises
\* out of the helper.
C7_Witness ==
    \E i \in LastReqs :
        /\ GotResponse(ReqAt(i))
        /\ ReqAt(i).exc = "JSONDecodeError"
        /\ ReqAt(i).released = 1

\* C8: when a 200 response lacks data.userId (addUser) or data.records
\* (inveterList), login or fetch_inverter_list completes without raising
\* and leaves the user id None.
C8_MissingKeysDegrade ==
    (/\ last.op \in {"login", "fetch_inverter_list"}
     /\ \E i \in LastReqs :
            /\ Parsed200(ReqAt(i))
            /\ ReqAt(i).env.content.shape \in {"nodata", "nokey"})
        => (last.exc = "none" /\ user_id = None)

\* C9: when logged in with a known serial and the detail request returns
\* 200 with a data object, fetch_inverter_data returns a record for any
\* subset of vendor keys present, also when dataTimestamp is absent.
C9_MissingTimestampOmitted ==
    (/\ last.op = "fetch_inverter_data"
     /\ \E i \in LastReqs :
            Parsed200(ReqAt(i)) /\ ReqAt(i).env.content.shape = "ok")
        => (last.ret = "record" /\ last.exc = "none")

\* C10: a request that times out or fails with a transport error (before or
\* after a response object is obtained) yields a result with Success = False
\* and a message, no exception leaves the helper, and a login or
\* fetch_inverter_data hit by it returns False / None.
C10_TransportErrorCaptured ==
    /\ \A i \in LastReqs :
          TransportError(ReqAt(i))
              => /\ ReqAt(i).exc = "none"
                 /\ ~ReqAt(i).res.Success
                 /\ ReqAt(i).res.Message # "None"
    /\ (\E i \in LastReqs : TransportError(ReqAt(i)))
          => /\ last.exc = "none"
             /\ last.op = "login" => last.ret = "False"
             /\ last.op = "fetch_inverter_data" => last.ret = "None"

\* C10 witness: a login whose inveterList request timed out while the body
\* of the response was read.
C10_Witness ==
    /\ last.op = "login" /\ Len(last.reqs) = 2
    /\ GotResponse(last.reqs[2]) /\ last.reqs[2].env.body = "timeout"
    /\ last.ret = "False"

\* C11: a fetch_inverter_list, fetch_inverter_data or transport-helper call
\* made while the session handle is None issues no request, raises nothing
\* and yields a failure result; the two fetch methods return None.
C11_NoSessionNoRequest ==
    (/\ last.preSession = None
     /\ last.op \in {"fetch_inverter_list", "fetch_inverter_data", "_get_data"})
        => /\ \A i \in LastReqs : ~ReqAt(i).issued /\ FailureResult(ReqAt(i))
           /\ last.exc = "none"
           /\ last.op # "_get_data" => last.ret = "None"

\* C11 witness: fetch_inverter_list called without a session handle went
\* through _post_data_json, which returned its failure result.
C11_Witness ==
    /\ last.op = "fetch_inverter_list" /\ last.preSession = None
    /\ Len(last.reqs) = 1 /\ ~last.reqs[1].issued
    /\ last.ret = "None"

\* the last call was a fetch_inverter_data that returned a record (the
\* record is self._data as the call leaves it)
ReturnedRecord == last.op = "fetch_inverter_data" /\ last.ret = "record"

\* what the detail response of request r holds for canonical field f, as
\* the declared type with the declared precision; Null when the vendor key
\* is absent or null
Own(r, f) ==
    GetValue(r.env.content.val, INVERTER_DATA[f].key, INVERTER_DATA[f].type,
             INVERTER_DATA[f].precision)

\* the (current, voltage) fields of the three AC phases
PhaseFields ==
    << <<PHASE1_CURRENT, PHASE1_VOLTAGE>>, <<PHASE2_CURRENT, PHASE2_VOLTAGE>>,
       <<PHASE3_CURRENT, PHASE3_VOLTAGE>> >>

\* a field of the record is there exactly when it was collected, with the
\* collected value
Retained(f) ==
    IF Own(ReqAt(1), f) = Null
      THEN f \notin DOMAIN data
      ELSE f \in DOMAIN data /\ data[f] = Own(ReqAt(1), f)[1]

\* C12: in a returned record, for each phase p: both phase-p fields are
\* absent if both were collected as 0.0; otherwise each phase-p field is
\* there exactly when it was collected, with its collected value, whatever
\* the other phases hold.
C12_PhasePurgePerPair ==
    ReturnedRecord =>
        \A p \in DOMAIN PhaseFields :
            IF /\ Own(ReqAt(1), PhaseFields[p][1]) = Some(Float(0))
               /\ Own(ReqAt(1), PhaseFields[p][2]) = Some(Float(0))
              THEN /\ PhaseFields[p][1] \notin DOMAIN data
                   /\ PhaseFields[p][2] \notin DOMAIN data
              ELSE Retained(PhaseFields[p][1]) /\ Retained(PhaseFields[p][2])

\* C12 witness: a record whose phase 2 was purged (both 0.0), whose phase 1
\* keeps a 0.0 current next to a live voltage, and whose phase 3 keeps a 0.0
\* voltage whose current was not reported.
C12_Witness ==
    /\ ReturnedRecord
    /\ Own(ReqAt(1), PHASE2_CURRENT) = Some(Float(0))
    /\ Own(ReqAt(1), PHASE2_VOLTAGE) = Some(Float(0))
    /\ PHASE2_CURRENT \notin DOMAIN data /\ PHASE2_VOLTAGE \notin DOMAIN data
    /\ PHASE1_CURRENT \in DOMAIN data /\ data[PHASE1_CURRENT] = Float(0)
    /\ PHASE1_VOLTAGE \in DOMAIN data /\ data[PHASE1_VOLTAGE] = Float(230000)
    /\ PHASE3_CURRENT \notin DOMAIN data
    /\ PHASE3_VOLTAGE \in DOMAIN data /\ data[PHASE3_VOLTAGE] = Float(0)

\* C13: with serialized calls, a returned record holds a field only if the
\* vendor key of that field was present and not null in the detail response
\* of the same call, and its phase readings are the ones of that response.
C13_FreshPerCall ==
    ReturnedRecord =>
        /\ Len(last.reqs) = 1
        /\ Parsed200(ReqAt(1)) /\ ReqAt(1).env.content.shape = "ok"
        /\ \A f \in DOMAIN data :
              /\ Own(ReqAt(1), f) # Null
              /\ f # INVERTER_TIMESTAMP_UPDATE => data[f] = Own(ReqAt(1), f)[1]

\* C13 witness: a record that holds the timestamp alone, from a response
\* that reported no phase reading.
C13_Witness ==
    /\ ReturnedRecord
    /\ DOMAIN data = {INVERTER_TIMESTAMP_UPDATE}
    /\ \A p \in DOMAIN PhaseFields : Own(ReqAt(1), PhaseFields[p][1]) = Null

\* the addUser answer of a login carried a user id and its inveterList
\* answer was a 200 with data.records
GoodLogin ==
    /\ last.op = "login" /\ Len(last.reqs) = 2
    /\ Parsed200(last.reqs[1]) /\ last.reqs[1].env.content.shape = "ok"
    /\ last.reqs[1].env.content.val # None
    /\ Parsed200(last.reqs[2]) /\ last.reqs[2].env.content.shape = "ok"

\* m holds the serial-to-id pairs of the records rs: its keys are the
\* serials of rs, each with the id of the last record of that serial
PairsOf(m, rs) ==
    /\ DOMAIN m = {rs[i].sn : i \in DOMAIN rs}
    /\ \A i \in DOMAIN rs :
          (\A j \in DOMAIN rs : j > i => rs[j].sn # rs[i].sn)
              => m[rs[i].sn] = rs[i].id

\* C14: in whatever state it is called, a login whose addUser answer
\* carries a user id and whose inveterList answer is a 200 with data.records
\* returns True, leaves the client logged in with that user id and the given
\* session handle, and the inverter map holds the pairs of that list.
C14_LoginNotSticky ==
    GoodLogin =>
        /\ last.ret = "True" /\ last.exc = "none"
        /\ session = last.arg
        /\ user_id = last.reqs[1].env.content.val
        /\ ~inverter_list.isNone
        /\ PairsOf(inverter_list.map, last.reqs[2].env.content.val)

\* C14 witness: such a login, made by a client that holds a record from an
\* earlier login, whose list named the same serial twice.
C14_Witness ==
    /\ GoodLogin /\ last.ret = "True"
    /\ data # EmptyDict
    /\ Len(last.reqs[2].env.content.val) = 2
    /\ last.reqs[2].env.content.val[1].sn = last.reqs[2].env.content.val[2].sn
    /\ last.reqs[2].env.content.val[1].id # last.reqs[2].env.content.val[2].id

\* the request went out as a signed POST
SignedPost(r) == r.issued /\ r.resource # GET_URL

\* C15: for every POST sent: the body is a compact serialization, the
\* Content-MD5 header is the encoded MD5 digest of that body, the URL is the
\* domain followed by the resource, and the Authorization header is the key
\* id with the encoded HMAC-SHA1, under the secret, of the canonical string
\* made of the verb, the Content-MD5, Content-Type and Date headers as sent
\* and the resource path of the URL.
C15_SignedPostConsistent ==
    \A i \in LastReqs :
        SignedPost(ReqAt(i)) =>
            /\ ReqAt(i).sent.data.itemSep = "," /\ ReqAt(i).sent.data.keySep = ":"
            /\ ReqAt(i).sent.headers.ContentMD5 = B64(Md5(ReqAt(i).sent.data))
            /\ ReqAt(i).sent.url = <<"https://", ConfigDomain, ReqAt(i).resource>>
            /\ ReqAt(i).sent.headers.Authorization =
                  <<"API ", ConfigKeyId, ":",
                    B64(HmacSha1(ConfigSecret,
                                 <<"POST", ReqAt(i).sent.headers.ContentMD5,
                                   ReqAt(i).sent.headers.ContentType,
                                   ReqAt(i).sent.headers.Date,
                                   ReqAt(i).sent.url[3]>>))>>

\* C15 witness: a login that sent both of its POSTs, at the later clock
\* reading.
C15_Witness ==
    /\ last.op = "login" /\ Len(last.reqs) = 2
    /\ SignedPost(last.reqs[1]) /\ SignedPost(last.reqs[2])
    /\ last.reqs[2].sent.headers.Date = Strftime("t2")

\* C16: the timestamp of a returned record is the dataTimestamp of the
\* detail response of the same call, divided by 1000 once (milliseconds are
\* thousandths of a second), in every call of a sequence.
C16_TimestampDividedOnce ==
    ReturnedRecord =>
        IF ReqAt(1).env.content.val["dataTimestamp"] = Null
          THEN INVERTER_TIMESTAMP_UPDATE \notin DOMAIN data
          ELSE /\ INVERTER_TIMESTAMP_UPDATE \in DOMAIN data
               /\ data[INVERTER_TIMESTAMP_UPDATE]
                     = Float(ReqAt(1).env.content.val["dataTimestamp"][1])

\* C16 witness: a record with timestamp 1.5 from a response whose
\* dataTimestamp was 1500.
C16_Witness ==
    /\ ReturnedRecord
    /\ ReqAt(1).env.content.val["dataTimestamp"] = Some(1500)
    /\ INVERTER_TIMESTAMP_UPDATE \in DOMAIN data
    /\ data[INVERTER_TIMESTAMP_UPDATE].type = "float"
    /\ data[INVERTER_TIMESTAMP_UPDATE].num = 1500

\* C18: a step that is a fetch_inverter_data call leaves the session
\* handle, the user id and the inverter map as they were.
C18_FetchDataKeepsSession ==
    [][last'.op = "fetch_inverter_data"
          => UNCHANGED <<session, user_id, inverter_list>>]_vars

\* C18 witness: the detail request of a call failed and the client is
\* still logged in, with its map and its session handle.
C18_Witness ==
    /\ last.op = "fetch_inverter_data" /\ Len(last.reqs) = 1
    /\ last.reqs[1].issued /\ FailureResult(last.reqs[1])
    /\ last.ret = "None"
    /\ session # None /\ user_id # None /\ ~inverter_list.isNone

\* the last call was a fetch_inverter_data that returned a record and that
\* overlapped with another call
OverlappedRecord == ReturnedRecord /\ last.overlapped

\* the value the record should hold for field f of the response of request
\* r: the timestamp in seconds, any other field as collected
OwnValue(r, f) ==
    IF f = INVERTER_TIMESTAMP_UPDATE
      THEN Float(r.env.content.val["dataTimestamp"][1])
      ELSE Own(r, f)[1]

\* C19: the record returned by a fetch_inverter_data call that overlapped
\* with another holds only fields of its own detail response, the timestamp
\* divided by 1000 once.
C19_OverlapIsolated ==
    OverlappedRecord =>
        \A f \in DOMAIN data :
            Own(ReqAt(1), f) # Null /\ data[f] = OwnValue(ReqAt(1), f)

\* C19, amended: the record returned by a fetch_inverter_data call that
\* overlapped with another holds, for every field of it that the call's own
\* detail response carried, the value of that response, the timestamp
\* divided by 1000 once.
C19_OverlapOwnFieldsRight ==
    OverlappedRecord =>
        \A f \in DOMAIN data :
            Own(ReqAt(1), f) # Null => data[f] = OwnValue(ReqAt(1), f)

\* C19 witness: an overlapped call returned a record that holds a field of
\* its own response and a field its own response did not carry.
C19_Witness ==
    /\ OverlappedRecord
    /\ \E f \in DOMAIN data : Own(ReqAt(1), f) # Null
    /\ \E f \in DOMAIN data : Own(ReqAt(1), f) = Null

====
